---- MODULE Spec2Model ----
(***************************************************************************)
(* Model of sync_working_files_to_notion.py: a one-way sync of spreadsheet *)
(* rows into a Notion database, with the index of the last synced row kept *)
(* in a local state file.                                                   *)
(*                                                                         *)
(* Strings are sequences of one-character strings, so that int(), str(),    *)
(* str.strip, str.split and str.startswith are computed character by        *)
(* character.  An Optional value is a sequence of length at most one:       *)
(* None is <<>> and a value x is <<x>>.                                     *)
(***************************************************************************)
EXTENDS Integers, Sequences, FiniteSets, TLC

VARIABLES
    state_file,      \* STATE_FILE on disk: [exists, text]
    sheet,           \* the worksheet: row k of the sheet is sheet[k]
    pages,           \* pages created in the Notion database, in creation order
    export_requests, \* the export requests the Drive service has received
    pc,              \* position of main: idle, fetch, row, export, create
    last_row,        \* main's local last_row
    rows,            \* main's local rows
    current_row,     \* main's local current_row
    synced_count,    \* main's local synced_count
    file_data,       \* main's local file_data (Optional)
    file_name,       \* main's local file_name (Optional)
    file_url_for_notion, \* main's local file_url_for_notion (Optional)
    history          \* history variable: one entry per run of main

vars == <<state_file, sheet, pages, export_requests, pc, last_row, rows,
          current_row, synced_count, file_data, file_name,
          file_url_for_notion, history>>

(***************************************************************************)
(* Bounds of the model.                                                    *)
(***************************************************************************)
MaxRows == 4
MaxRuns == 3
MaxBatch == 3
MaxFileLen == 3
MaxWatermark == 120
MaxUrlLen == 5

(***************************************************************************)
(* Strings.                                                                *)
(***************************************************************************)
None == <<>>

Some(x) == <<x>>

DigitChars == <<"0", "1", "2", "3", "4", "5", "6", "7", "8", "9">>

Digits == {DigitChars[i] : i \in 1..10}

DigitVal(c) == (CHOOSE i \in 1..10 : DigitChars[i] = c) - 1

Whitespace == {" "}

RECURSIVE NatToStr(_)
NatToStr(n) ==
    IF n < 10 THEN <<DigitChars[n + 1]>>
    ELSE NatToStr(n \div 10) \o <<DigitChars[(n % 10) + 1]>>

\* str(n) of a Python int
PyStr(n) == IF n < 0 THEN <<"-">> \o NatToStr(-n) ELSE NatToStr(n)

RECURSIVE LStrip(_)
LStrip(s) ==
    IF s # <<>> /\ Head(s) \in Whitespace THEN LStrip(Tail(s)) ELSE s

RECURSIVE RStrip(_)
RStrip(s) ==
    IF s # <<>> /\ s[Len(s)] \in Whitespace
    THEN RStrip(SubSeq(s, 1, Len(s) - 1))
    ELSE s

\* str.strip()
PyStrip(s) == RStrip(LStrip(s))

\* The digit scan of int(): left to right, acc is the value so far, prev says
\* whether the previous character was a digit.  An underscore is accepted only
\* between two digits.  -1 stands for ValueError.
RECURSIVE ScanDigits(_, _, _)
ScanDigits(s, acc, prev) ==
    IF s = <<>> THEN (IF prev THEN acc ELSE -1)
    ELSE IF Head(s) \in Digits
         THEN ScanDigits(Tail(s), 10 * acc + DigitVal(Head(s)), TRUE)
    ELSE IF Head(s) = "_" /\ prev THEN ScanDigits(Tail(s), acc, FALSE)
    ELSE -1

\* int(s) of a Python str: [ok, value]; ok = FALSE is ValueError
PyInt(s) ==
    LET t == PyStrip(s)
        signed == t # <<>> /\ Head(t) \in {"+", "-"}
        body == IF signed THEN Tail(t) ELSE t
        mag == ScanDigits(body, 0, FALSE)
    IN  IF mag < 0 THEN [ok |-> FALSE, value |-> 0]
        ELSE [ok |-> TRUE,
              value |-> IF signed /\ Head(t) = "-" THEN -mag ELSE mag]

\* s.startswith(p)
StartsWith(s, p) == Len(s) >= Len(p) /\ SubSeq(s, 1, Len(p)) = p

\* s.split(sep) for a one-character sep
RECURSIVE Split(_, _)
Split(s, sep) ==
    IF \A i \in 1..Len(s) : s[i] # sep THEN <<s>>
    ELSE LET i == CHOOSE j \in 1..Len(s) :
                    s[j] = sep /\ \A k \in 1..(j - 1) : s[k] # sep
         IN  <<SubSeq(s, 1, i - 1)>> \o Split(SubSeq(s, i + 1, Len(s)), sep)

\* list.index(x), 1-based; 0 stands for ValueError
ListIndex(parts, x) ==
    IF \A i \in 1..Len(parts) : parts[i] # x THEN 0
    ELSE CHOOSE i \in 1..Len(parts) :
            parts[i] = x /\ \A k \in 1..(i - 1) : parts[k] # x

(***************************************************************************)
(* The state file.                                                         *)
(***************************************************************************)
NoFile == [exists |-> FALSE, text |-> <<>>]

FileWith(text) == [exists |-> TRUE, text |-> text]

\* Mutant of get_last_synced_row: the ValueError of int() is not caught
get_last_synced_row_NoExcept(file) ==
    IF ~file.exists THEN [raised |-> FALSE, value |-> 1]
    ELSE LET r == PyInt(PyStrip(file.text))
         IN  [raised |-> ~r.ok, value |-> r.value]

\* get_last_synced_row: [raised, value]
get_last_synced_row(file) ==
    IF ~file.exists THEN [raised |-> FALSE, value |-> 1]
    ELSE LET r == PyInt(PyStrip(file.text))
         IN  IF r.ok THEN [raised |-> FALSE, value |-> r.value]
             ELSE [raised |-> FALSE, value |-> 1]

\* update_last_synced_row: the file after the call
update_last_synced_row(row_index) == FileWith(PyStr(row_index))

(***************************************************************************)
(* Rows of the worksheet.  Columns, by offset: 0 Notion URL, 1 Description, *)
(* 2 Link, 3 PDF Link, 4 Category, 5 Remark, 6 File Date.  The Sheets API   *)
(* omits the trailing empty cells of a row and the trailing empty rows of a *)
(* range, so a row never ends with an empty cell.                          *)
(***************************************************************************)
Http == <<"h", "t", "t", "p">>

DocLink == Http \o <<"/", "d", "/", "i">>

PlainLink == Http \o <<"/", "x">>

OtherLink == <<"f", "/", "d", "/", "i">>

PdfLink == Http \o <<"/", "a">>

HeaderRow == << <<"U">>, <<"D">>, <<"L">>, <<"P">> >>

RowValues ==
    { <<>>,
      << <<"n">> >>,
      << <<>>, <<>>, DocLink >>,
      << <<>>, <<"A">>, DocLink, PdfLink >>,
      << <<>>, <<"B">>, DocLink >>,
      << <<>>, <<"C">>, PlainLink, <<>>, <<"c">> >>,
      << <<>>, <<"D">>, OtherLink >>,
      << <<>>, <<"E">>, <<>>, <<>>, <<>>, <<"r">>, <<"t">> >> }

\* row[k] if len(row) > k else ""
Field(row, k) == IF Len(row) > k THEN row[k + 1] ELSE <<>>

Description(row) == Field(row, 1)

Link(row) == Field(row, 2)

PdfLinkOf(row) == Field(row, 3)

Category(row) == Field(row, 4)

Remark(row) == Field(row, 5)

FileDate(row) == Field(row, 6)

\* Index of the last populated row of the sheet, 0 if there is none
PopulatedLen(s) ==
    IF \A k \in 1..Len(s) : s[k] = <<>> THEN 0
    ELSE CHOOSE k \in 1..Len(s) :
            s[k] # <<>> /\ \A j \in (k + 1)..Len(s) : s[j] = <<>>

\* read_sheet_rows: the values of range A{start_row}:Z, for start_row >= 1:
\* the rows from start_row to the last populated row, none if there is none
read_sheet_rows(s, start_row) == SubSeq(s, start_row, PopulatedLen(s))

(***************************************************************************)
(* export_file_to_pdf.                                                     *)
(***************************************************************************)
PdfBytes == <<"%">>

\* Mutant of CaughtParseErrors: IndexError is not caught
CaughtParseErrors_ValueErrorOnly == {"ValueError"}

\* The exceptions the first try block of export_file_to_pdf catches
CaughtParseErrors == {"ValueError", "IndexError"}

\* The first try block: the file id of a share URL, or the exception raised.
\* Both branches of the drive.google.com test compute the same index.
ParseFileId(file_url) ==
    LET parts == Split(file_url, "/")
        d == ListIndex(parts, <<"d">>)
    IN  IF d = 0 THEN [err |-> "ValueError", id |-> <<>>]
        ELSE IF d + 1 > Len(parts) THEN [err |-> "IndexError", id |-> <<>>]
        ELSE [err |-> "none", id |-> parts[d + 1]]

(***************************************************************************)
(* notion_create_entry and the properties main builds.                     *)
(***************************************************************************)
PropertyKeys(row, url) ==
    {"File Name"}
        \cup (IF Category(row) # <<>> THEN {"Category"} ELSE {})
        \cup (IF Remark(row) # <<>> THEN {"Remark"} ELSE {})
        \cup (IF FileDate(row) # <<>> THEN {"File Date"} ELSE {})
        \cup (IF url # None THEN {"Link"} ELSE {})

BuildProperties(row, url) ==
    [k \in PropertyKeys(row, url) |->
        CASE k = "File Name" -> [type |-> "title", value |-> Description(row)]
          [] k = "Category" -> [type |-> "select", value |-> Category(row)]
          [] k = "Remark" -> [type |-> "rich_text", value |-> Remark(row)]
          [] k = "File Date" -> [type |-> "date", value |-> FileDate(row)]
          [] k = "Link" -> [type |-> "url", value |-> url[1]]]

\* Mutant of notion_create_entry: the exported file is attached to the page
notion_create_entry_Attaches(properties, file_bytes, name) ==
    [properties |-> properties,
     children |-> IF file_bytes # None THEN <<[file |-> file_bytes, name |-> name]>>
                  ELSE <<>>]

\* notion_create_entry: the page notion.pages.create is asked to create
notion_create_entry(properties, file_bytes, name) ==
    [properties |-> properties, children |-> <<>>]

(***************************************************************************)
(* main, one action per step.                                              *)
(***************************************************************************)
CurRow == rows[current_row - last_row]

NewRun(w) == [last_row |-> w, outcome |-> "running", file_before |-> state_file]

\* main returns or raises.  The per-row temporaries end with the call; the
\* other locals are kept as they were at that moment.
Finish(outcome) ==
    /\ pc' = "idle"
    /\ history' = [history EXCEPT ![Len(history)].outcome = outcome]
    /\ file_data' = None
    /\ file_name' = None
    /\ file_url_for_notion' = None

\* last_row = get_last_synced_row()
StartRun ==
    /\ pc = "idle"
    /\ Len(history) < MaxRuns
    /\ LET r == get_last_synced_row(state_file)
       IN  IF r.raised
           THEN /\ pc' = "idle"
                /\ last_row' = last_row
                /\ history' = Append(history, [NewRun(0) EXCEPT !.outcome = "error"])
           ELSE /\ pc' = "fetch"
                /\ last_row' = r.value
                /\ history' = Append(history, NewRun(r.value))
    /\ rows' = <<>>
    /\ current_row' = 0
    /\ synced_count' = 0
    /\ file_data' = None
    /\ file_name' = None
    /\ file_url_for_notion' = None
    /\ UNCHANGED <<state_file, sheet, pages, export_requests>>

\* rows = read_sheet_rows(..., start_row=last_row + 1) returns.  A range that
\* starts before row 1 is no range of the sheet: that request only fails.
FetchRows ==
    /\ pc = "fetch"
    /\ last_row + 1 >= 1
    /\ rows' = read_sheet_rows(sheet, last_row + 1)
    /\ IF rows' = <<>>
       THEN /\ Finish("no_new_rows")
            /\ UNCHANGED current_row
       ELSE /\ pc' = "row"
            /\ current_row' = last_row
            /\ UNCHANGED <<history, file_data, file_name, file_url_for_notion>>
    /\ UNCHANGED <<state_file, sheet, pages, export_requests, last_row,
                   synced_count>>

\* read_sheet_rows raises: the error leaves main
FetchFails ==
    /\ pc = "fetch"
    /\ Finish("error")
    /\ UNCHANGED <<state_file, sheet, pages, export_requests, last_row, rows,
                   current_row, synced_count>>

MoreRows == pc = "row" /\ current_row - last_row < Len(rows)

NextRow == rows[current_row - last_row + 1]

\* Mutant of SkipRow: the skipped row is counted as synced
SkipRow_Counts ==
    /\ MoreRows
    /\ Description(NextRow) = <<>>
    /\ current_row' = current_row + 1
    /\ synced_count' = synced_count + 1
    /\ UNCHANGED <<state_file, sheet, pages, export_requests, pc, last_row,
                   rows, file_data, file_name, file_url_for_notion, history>>

\* A loop iteration that ends at "continue"
SkipRow ==
    /\ MoreRows
    /\ Description(NextRow) = <<>>
    /\ current_row' = current_row + 1
    /\ UNCHANGED <<state_file, sheet, pages, export_requests, pc, last_row,
                   rows, synced_count, file_data, file_name,
                   file_url_for_notion, history>>

\* Mutant of ResolveFile: the link is exported even when a PDF link is given
ResolveFile_LinkFirst ==
    /\ MoreRows
    /\ Description(NextRow) # <<>>
    /\ current_row' = current_row + 1
    /\ file_data' = None
    /\ file_name' = None
    /\ IF Link(NextRow) # <<>> /\ StartsWith(Link(NextRow), Http)
       THEN /\ file_url_for_notion' = None
            /\ pc' = "export"
       ELSE /\ file_url_for_notion' =
                  IF PdfLinkOf(NextRow) # <<>> THEN Some(PdfLinkOf(NextRow)) ELSE None
            /\ pc' = "create"
    /\ UNCHANGED <<state_file, sheet, pages, export_requests, last_row, rows,
                   synced_count, history>>

\* A loop iteration up to the call of export_file_to_pdf or notion_create_entry
ResolveFile ==
    /\ MoreRows
    /\ Description(NextRow) # <<>>
    /\ current_row' = current_row + 1
    /\ file_data' = None
    /\ file_name' = None
    /\ IF PdfLinkOf(NextRow) # <<>>
       THEN /\ file_url_for_notion' = Some(PdfLinkOf(NextRow))
            /\ pc' = "create"
       ELSE /\ file_url_for_notion' = None
            /\ pc' = IF Link(NextRow) # <<>> /\ StartsWith(Link(NextRow), Http)
                     THEN "export"
                     ELSE "create"
    /\ UNCHANGED <<state_file, sheet, pages, export_requests, last_row, rows,
                   synced_count, history>>

\* Mutant of ExportParseFails: a row whose link holds no file id gets no page
ExportParseFails_SkipsRow ==
    /\ pc = "export"
    /\ ParseFileId(Link(CurRow)).err # "none"
    /\ pc' = "row"
    /\ file_data' = None
    /\ UNCHANGED <<state_file, sheet, pages, export_requests, last_row, rows,
                   current_row, synced_count, file_name, file_url_for_notion,
                   history>>

\* export_file_to_pdf: the file id cannot be extracted
ExportParseFails ==
    /\ pc = "export"
    /\ ParseFileId(Link(CurRow)).err # "none"
    /\ IF ParseFileId(Link(CurRow)).err \in CaughtParseErrors
       THEN /\ pc' = "create"
            /\ file_data' = None
            /\ UNCHANGED <<history, file_name, file_url_for_notion>>
       ELSE Finish("error")
    /\ UNCHANGED <<state_file, sheet, pages, export_requests, last_row, rows,
                   current_row, synced_count>>

\* The request export_media(fileId=file_id, mimeType="application/pdf"), with
\* the row it is made for
ExportRequest ==
    [row |-> current_row, file_id |-> ParseFileId(Link(CurRow)).id]

\* export_file_to_pdf: the export request raises, None is returned
ExportServiceError ==
    /\ pc = "export"
    /\ ParseFileId(Link(CurRow)).err = "none"
    /\ export_requests' = export_requests \cup {ExportRequest}
    /\ file_data' = None
    /\ pc' = "create"
    /\ UNCHANGED <<state_file, sheet, pages, last_row, rows, current_row,
                   synced_count, file_name, file_url_for_notion, history>>

\* export_file_to_pdf returns the PDF bytes; main sets file_name
ExportSucceeds ==
    /\ pc = "export"
    /\ ParseFileId(Link(CurRow)).err = "none"
    /\ export_requests' = export_requests \cup {ExportRequest}
    /\ file_data' = Some(PdfBytes)
    /\ file_name' = Some(Description(CurRow) \o <<".", "p", "d", "f">>)
    /\ pc' = "create"
    /\ UNCHANGED <<state_file, sheet, pages, last_row, rows, current_row,
                   synced_count, file_url_for_notion, history>>

\* The page of a row, with the row and the run it was created for
PageFor(row, url, data, name) ==
    [page |-> notion_create_entry(BuildProperties(row, url), data, name),
     source_row |-> current_row,
     run |-> Len(history)]

\* Mutant of CreateEntry: the watermark is written after every page
CreateEntry_PersistsEachRow ==
    /\ pc = "create"
    /\ pages' = Append(pages,
                       PageFor(CurRow, file_url_for_notion, file_data, file_name))
    /\ synced_count' = synced_count + 1
    /\ state_file' = update_last_synced_row(current_row)
    /\ pc' = "row"
    /\ UNCHANGED <<sheet, export_requests, last_row, rows, current_row,
                   file_data, file_name, file_url_for_notion, history>>

\* notion_create_entry returns; synced_count += 1
CreateEntry ==
    /\ pc = "create"
    /\ pages' = Append(pages,
                       PageFor(CurRow, file_url_for_notion, file_data, file_name))
    /\ synced_count' = synced_count + 1
    /\ pc' = "row"
    /\ UNCHANGED <<state_file, sheet, export_requests, last_row, rows,
                   current_row, file_data, file_name, file_url_for_notion,
                   history>>

\* Mutant of CreateEntryFails: the rows done so far are recorded on failure
CreateEntryFails_SavesProgress ==
    /\ pc = "create"
    /\ state_file' = update_last_synced_row(current_row - 1)
    /\ Finish("error")
    /\ UNCHANGED <<sheet, pages, export_requests, last_row, rows, current_row,
                   synced_count>>

\* notion.pages.create raises: the error leaves main
CreateEntryFails ==
    /\ pc = "create"
    /\ Finish("error")
    /\ UNCHANGED <<state_file, sheet, pages, export_requests, last_row, rows,
                   current_row, synced_count>>

\* Mutant of UpdateLastSyncedRow: the number of synced rows is written
UpdateLastSyncedRow_WritesCount ==
    /\ pc = "row"
    /\ current_row - last_row = Len(rows)
    /\ state_file' = update_last_synced_row(synced_count)
    /\ Finish("ok")
    /\ UNCHANGED <<sheet, pages, export_requests, last_row, rows, current_row,
                   synced_count>>

\* Mutant of UpdateLastSyncedRow: last_row is written instead of current_row
UpdateLastSyncedRow_KeepsWatermark ==
    /\ pc = "row"
    /\ current_row - last_row = Len(rows)
    /\ state_file' = update_last_synced_row(last_row)
    /\ Finish("ok")
    /\ UNCHANGED <<sheet, pages, export_requests, last_row, rows, current_row,
                   synced_count>>

\* After the loop: update_last_synced_row(current_row) and the summary
UpdateLastSyncedRow ==
    /\ pc = "row"
    /\ current_row - last_row = Len(rows)
    /\ state_file' = update_last_synced_row(current_row)
    /\ Finish("ok")
    /\ UNCHANGED <<sheet, pages, export_requests, last_row, rows, current_row,
                   synced_count>>

\* The rows the multi-run specification appends: one without description,
\* one with an exportable link, one with a link that holds no file id
CoreRows ==
    { <<>>,
      << <<>>, <<"B">>, DocLink >>,
      << <<>>, <<"C">>, PlainLink, <<>>, <<"c">> >> }

\* Between runs, a row is added at the end of the worksheet
AppendRow ==
    /\ pc = "idle"
    /\ Len(sheet) < MaxRows
    /\ \E r \in CoreRows : sheet' = Append(sheet, r)
    /\ UNCHANGED <<state_file, pages, export_requests, pc, last_row, rows,
                   current_row, synced_count, file_data, file_name,
                   file_url_for_notion, history>>

(***************************************************************************)
(* Spec: any number of runs of main, up to MaxRuns, against a worksheet     *)
(* that only grows at its end.                                             *)
(***************************************************************************)
InitialFiles == {NoFile, FileWith(<<"2">>), FileWith(<<"x">>)}

Idle ==
    /\ pages = <<>>
    /\ export_requests = {}
    /\ pc = "idle"
    /\ last_row = 0
    /\ rows = <<>>
    /\ current_row = 0
    /\ synced_count = 0
    /\ file_data = None
    /\ file_name = None
    /\ file_url_for_notion = None
    /\ history = <<>>

Init ==
    /\ state_file \in InitialFiles
    /\ sheet = <<HeaderRow>>
    /\ Idle

Next ==
    \/ StartRun
    \/ FetchRows
    \/ FetchFails
    \/ SkipRow
    \/ ResolveFile
    \/ ExportParseFails
    \/ ExportServiceError
    \/ ExportSucceeds
    \/ CreateEntry
    \/ CreateEntryFails
    \/ UpdateLastSyncedRow
    \/ AppendRow

Spec == Init /\ [][Next]_vars

(***************************************************************************)
(* SpecBatch: one run of main over every batch of at most MaxBatch rows.    *)
(***************************************************************************)
RECURSIVE SeqsUpTo(_, _)
SeqsUpTo(S, n) ==
    IF n = 0 THEN {<<>>}
    ELSE LET shorter == SeqsUpTo(S, n - 1)
         IN  shorter \cup {Append(q, x) : q \in shorter, x \in S}

BatchFiles ==
    InitialFiles \cup {FileWith(<<"0">>), FileWith(<<"1">>), FileWith(<<"-", "1">>)}

InitBatch ==
    /\ state_file \in BatchFiles
    /\ \E b \in SeqsUpTo(RowValues, MaxBatch) : sheet = <<HeaderRow>> \o b
    /\ Idle

FirstRun == StartRun /\ history = <<>>

NextBatch ==
    \/ FirstRun
    \/ FetchRows
    \/ FetchFails
    \/ SkipRow
    \/ ResolveFile
    \/ ExportParseFails
    \/ ExportServiceError
    \/ ExportSucceeds
    \/ CreateEntry
    \/ CreateEntryFails
    \/ UpdateLastSyncedRow

SpecBatch == InitBatch /\ [][NextBatch]_vars

(***************************************************************************)
(* SpecWatermark: get_last_synced_row on every state file of at most        *)
(* MaxFileLen characters, and after update_last_synced_row of every row     *)
(* index up to MaxWatermark.                                               *)
(***************************************************************************)
FileAlphabet == {"0", "1", "7", "-", "+", "_", " ", "x"}

InitWatermark ==
    /\ sheet = <<HeaderRow>>
    /\ pages = <<>>
    /\ export_requests = {}
    /\ rows = <<>>
    /\ synced_count = 0
    /\ file_data = None
    /\ file_name = None
    /\ file_url_for_notion = None
    /\ \/ /\ pc = "idle"
          /\ state_file \in
                {NoFile} \cup {FileWith(t) : t \in SeqsUpTo(FileAlphabet, MaxFileLen)}
          /\ last_row = 0
          /\ current_row = 0
          /\ history = <<>>
       \/ /\ pc = "row"
          /\ state_file = NoFile
          /\ \E n \in 0..MaxWatermark : last_row = n /\ current_row = n
          /\ history = <<NewRun(last_row)>>

NextWatermark ==
    \/ StartRun
    \/ UpdateLastSyncedRow

SpecWatermark == InitWatermark /\ [][NextWatermark]_vars

(***************************************************************************)
(* SpecExport: export_file_to_pdf on every URL of at most MaxUrlLen         *)
(* characters.                                                             *)
(***************************************************************************)
UrlAlphabet == {"/", "d", "x"}

InitExport ==
    /\ state_file = NoFile
    /\ pages = <<>>
    /\ export_requests = {}
    /\ pc = "export"
    /\ last_row = 1
    /\ current_row = 2
    /\ \E u \in SeqsUpTo(UrlAlphabet, MaxUrlLen) :
          /\ rows = << << <<>>, <<"A">>, u >> >>
          /\ sheet = <<HeaderRow>> \o rows
    /\ synced_count = 0
    /\ file_data = None
    /\ file_name = None
    /\ file_url_for_notion = None
    /\ history = <<NewRun(1)>>

NextExport ==
    \/ ExportParseFails
    \/ ExportServiceError
    \/ ExportSucceeds

SpecExport == InitExport /\ [][NextExport]_vars

(***************************************************************************)
(* Properties.                                                             *)
(***************************************************************************)
\* The outcome of the latest run: running, ok, no_new_rows or error
Outcome == IF history = <<>> THEN "none" ELSE history[Len(history)].outcome

\* The pages created for row k of the sheet
PagesFor(k) == {i \in 1..Len(pages) : pages[i].source_row = k}

\* The rows of the current batch, as row indices of the sheet
BatchRows == (last_row + 1)..(last_row + Len(rows))

\* The keys of the properties that carry no URL
MetadataKeys == {"File Name", "Category", "Remark", "File Date"}

\* C1: a run of main that ends by an error (the fetch fails, or the creation of
\* any record fails) leaves the state file with the content it had before the
\* run.
C1_FailedRunKeepsWatermark ==
    Outcome = "error" => state_file = history[Len(history)].file_before

\* A run fails on the second record of a batch of three rows
C1_Witness ==
    /\ Outcome = "error"
    /\ Len(rows) = 3
    /\ current_row = last_row + 2
    /\ synced_count = 1
    /\ Len(pages) = 1

\* C2: a fetched row whose description (the cell at offset 1, empty when the
\* row has fewer than 2 cells) is empty gets no page and is not counted in
\* synced_count, while current_row counts it, and the watermark written by a
\* run that completes lies at or past it.
C2_EmptyDescriptionSkipped ==
    /\ \A j \in 1..Len(rows) :
          (Len(rows[j]) < 2 \/ rows[j][2] = <<>>) =>
             /\ PagesFor(last_row + j) = {}
             /\ Outcome = "ok" =>
                   get_last_synced_row(state_file).value >= last_row + j
    /\ (pc = "row" \/ Outcome = "ok") =>
          synced_count =
             Cardinality({j \in 1..(current_row - last_row) :
                             Len(rows[j]) >= 2 /\ rows[j][2] # <<>>})

\* A completed run whose batch ends with a row that has cells but an empty
\* description, after a row with fewer than 2 cells and a row that was synced
C2_Witness ==
    /\ Outcome = "ok"
    /\ Len(rows) = 3
    /\ Len(rows[1]) = 1
    /\ Len(pages) = 1
    /\ Len(rows[3]) = 3 /\ rows[3][2] = <<>>

\* C3: a run that fetches a non-empty batch of n rows with watermark w and
\* completes creates exactly one page per row with a non-empty description, in
\* source order, reports their number, and leaves w + n in the state file.
C3_CompletedRun ==
    Outcome = "ok" =>
       LET valid == {k \in BatchRows : Field(sheet[k], 1) # <<>>}
       IN  /\ rows # <<>>
           /\ last_row = get_last_synced_row(history[1].file_before).value
           /\ Len(pages) = Cardinality(valid)
           /\ \A i \in 1..Len(pages) :
                 /\ pages[i].source_row \in valid
                 /\ pages[i].page.properties["File Name"].value =
                       Field(sheet[pages[i].source_row], 1)
           /\ \A i, j \in 1..Len(pages) :
                 i < j => pages[i].source_row < pages[j].source_row
           /\ synced_count = Cardinality(valid)
           /\ state_file = FileWith(PyStr(last_row + Len(rows)))
           /\ get_last_synced_row(state_file).value = last_row + Len(rows)

\* The end-to-end scenario: three rows, the first with a PDF link, the second
\* without description, the third with a document link; two pages
C3_Witness ==
    /\ Outcome = "ok"
    /\ Len(rows) = 3
    /\ PdfLinkOf(rows[1]) = PdfLink
    /\ Description(rows[2]) = <<>>
    /\ Link(rows[3]) = DocLink /\ PdfLinkOf(rows[3]) = <<>>
    /\ Len(pages) = 2
    /\ synced_count = 2

\* C4: the page of a row with a non-empty description and a non-empty PDF link
\* has a Link property equal to the PDF link, whatever the link column holds,
\* and no export is requested for that row.
C4_PdfLinkVerbatim ==
    /\ \A i \in 1..Len(pages) :
          LET row == sheet[pages[i].source_row]
          IN  Field(row, 3) # <<>> =>
                 /\ "Link" \in DOMAIN pages[i].page.properties
                 /\ pages[i].page.properties["Link"] =
                       [type |-> "url", value |-> Field(row, 3)]
    /\ \A q \in export_requests : Field(sheet[q.row], 3) = <<>>

\* A page was created for a row that has both an exportable link and a PDF link
C4_Witness ==
    \E i \in 1..Len(pages) :
       /\ Link(sheet[pages[i].source_row]) = DocLink
       /\ PdfLinkOf(sheet[pages[i].source_row]) = PdfLink
       /\ pages[i].page.properties["Link"].value = PdfLink

\* Text that int() accepts: optional whitespace around an optional sign and
\* digits, where single underscores may stand between digits
IsSignedDigits(c) ==
    LET body == IF c # <<>> /\ c[1] \in {"+", "-"} THEN Tail(c) ELSE c
    IN  /\ body # <<>>
        /\ \A i \in 1..Len(body) : body[i] \in Digits \cup {"_"}
        /\ body[1] \in Digits
        /\ body[Len(body)] \in Digits
        /\ \A i \in 2..(Len(body) - 1) :
              body[i] = "_" => body[i - 1] \in Digits /\ body[i + 1] \in Digits

IsIntegerText(t) ==
    \E a \in 0..Len(t) : \E b \in a..Len(t) :
       /\ \A i \in 1..a : t[i] \in Whitespace
       /\ \A i \in (b + 1)..Len(t) : t[i] \in Whitespace
       /\ IsSignedDigits(SubSeq(t, a + 1, b))

HasFileIdSegment(url) ==
    \/ StartsWith(url, <<"d", "/">>)
    \/ \E i \in 1..(Len(url) - 2) : SubSeq(url, i, i + 2) = <<"/", "d", "/">>

C7_WatermarkMonotonic ==
    /\ \A r, q \in 1..Len(history) :
          r < q => history[r].last_row <= history[q].last_row
    /\ Outcome = "ok" => get_last_synced_row(state_file).value >= last_row

\* Three runs: the second read more than the first, the third more again
C7_Witness ==
    /\ Len(history) = 3
    /\ history[1].last_row < history[2].last_row
    /\ history[2].last_row < history[3].last_row
    /\ Outcome = "ok"

NoFailure == \A r \in 1..Len(history) : history[r].outcome # "error"

\* C8: while every run completes and the sheet only grows at its end, no row
\* has more than one page; rows without description and rows up to the initial
\* watermark have none; and after a run every row with a description between
\* the initial watermark and the end of the fetched rows has exactly one.
C8_ExactlyOnce ==
    (NoFailure /\ history # <<>>) =>
       \A k \in 1..Len(sheet) :
          /\ Cardinality(PagesFor(k)) <= 1
          /\ (Field(sheet[k], 1) = <<>> \/ k <= history[1].last_row) =>
                PagesFor(k) = {}
          /\ ( /\ Outcome \in {"ok", "no_new_rows"}
               /\ k > history[1].last_row
               /\ k <= last_row + Len(rows)
               /\ Field(sheet[k], 1) # <<>> ) =>
                Cardinality(PagesFor(k)) = 1

\* Three completed runs, each of which created the page of a new row
C8_Witness ==
    /\ Len(history) = 3
    /\ \A r \in 1..3 : history[r].outcome = "ok"
    /\ Len(pages) = 3
    /\ \A i \in 1..3 : pages[i].run = i

\* C9: the run after a failed run reads the same watermark as the failed run;
\* and when a run completes, every row of its batch with a description has a
\* page of this run, and every page that an earlier run created for a row past
\* the watermark has a duplicate created by this run.
C9_AtLeastOnce ==
    /\ \A r \in 1..(Len(history) - 1) :
          history[r].outcome = "error" =>
             history[r + 1].last_row = history[r].last_row
    /\ Outcome = "ok" =>
          /\ \A k \in BatchRows :
                Field(sheet[k], 1) # <<>> =>
                   \E i \in PagesFor(k) : pages[i].run = Len(history)
          /\ \A i \in 1..Len(pages) :
                (pages[i].run < Len(history) /\ pages[i].source_row > last_row) =>
                   /\ history[pages[i].run].outcome = "error"
                   /\ \E j \in PagesFor(pages[i].source_row) :
                         /\ pages[j].run = Len(history)
                         /\ pages[j].page = pages[i].page

\* A run failed after creating a page, and the next run completed
C9_Witness ==
    /\ Outcome = "ok"
    /\ Len(history) >= 2
    /\ history[Len(history) - 1].outcome = "error"
    /\ \E i \in 1..Len(pages) : pages[i].run = Len(history) - 1
    /\ \E k \in BatchRows : Cardinality(PagesFor(k)) = 2

====
